---- MODULE Spec2Model ----
(***************************************************************************)
(* A model of debug.h: the level-gated logger (log_set_level,              *)
(* log_set_file, log_log and its wrappers), the guard macros (check,       *)
(* check_mem, check_debug) and the two formatting helpers                  *)
(* (get_log_level_str, get_time_str).                                      *)
(*                                                                         *)
(* C strings are sequences of one-character strings, so that formatting    *)
(* (the printf conversions, strftime, the decimal rendering of __LINE__)   *)
(* is computed and not assumed.                                            *)
(***************************************************************************)
EXTENDS Integers, Sequences, FiniteSets, TLC

\* ------------------------------------------------------------------ bounds
\* at most this many records are emitted in one run
MaxRecords == 1
\* at most this many log_log calls are started in one concurrent run
MaxRaceLogs == 1

\* --------------------------------------------------------------- LogLevel
LOG_TRACE == 0
LOG_DEBUG == 1
LOG_INFO == 2
LOG_WARN == 3
LOG_ERROR == 4
LogLevel == {LOG_TRACE, LOG_DEBUG, LOG_INFO, LOG_WARN, LOG_ERROR}

\* the null FILE pointer (a stream is [path, buf]), and the terminating byte
\* of a C string
NULL == [path |-> "(null)", buf |-> <<>>]
NUL == "\\0"

\* -------------------------------------------------------- string literals
level_str ==
  << <<"T","R","A","C","E">>,
     <<"D","E","B","U","G">>,
     <<"I","N","F","O">>,
     <<"W","A","R","N">>,
     <<"E","R","R","O","R">> >>

\* level_str[level]; C arrays are indexed from 0
get_log_level_str(level) == level_str[level + 1]

\* a mutant of the format: no space between the location and the message
LOG_FMT_nospace ==
  <<"%","s"," ","[","%","s","]"," ","(","%","s",":","%","d",")">>

\* "%s [%s] (%s:%d) "
LOG_FMT ==
  <<"%","s"," ","[","%","s","]"," ","(","%","s",":","%","d",")"," ">>

\* "\n"
NEWLINE == <<"\n">>

\* "Out of memory."
OutOfMemory == <<"O","u","t"," ","o","f"," ","m","e","m","o","r","y",".">>

\* --------------------------------------------------- printf conversions
Digits == <<"0","1","2","3","4","5","6","7","8","9">>

RECURSIVE Dec(_)
\* %d of a non-negative int
Dec(n) == IF n < 10 THEN <<Digits[n + 1]>>
          ELSE Dec(n \div 10) \o <<Digits[(n % 10) + 1]>>

RECURSIVE Format(_, _)
\* the text fprintf produces for a format and its arguments; an argument is
\* [s |-> string] for %s and [d |-> int] for %d
Format(fmt, args) ==
  IF fmt = <<>> THEN <<>>
  ELSE IF Head(fmt) = "%" /\ Len(fmt) >= 2
       THEN LET conv == fmt[2]
                rest == SubSeq(fmt, 3, Len(fmt))
            IN  IF conv = "s" THEN Head(args).s \o Format(rest, Tail(args))
                ELSE IF conv = "d"
                     THEN Dec(Head(args).d) \o Format(rest, Tail(args))
                     ELSE <<"%", conv>> \o Format(rest, args)
       ELSE <<Head(fmt)>> \o Format(Tail(fmt), args)

\* ------------------------------------------------------------ get_time_str
\* sizeof(time_str): static char time_str[20]
TIME_STR_SIZE == 20

\* the C libraries whose strftime the build may link
Libcs == {"bsd", "glibc", "musl"}

\* the local times time()/localtime() may report
Instants ==
  { [year |-> 2024, mon |-> 3, mday |-> 1, hour |-> 10, min |-> 15, sec |-> 7] }

RECURSIVE Pad(_, _)
\* n in decimal, zero-padded to w digits (%Y, %m, %d, %H, %M, %S)
Pad(n, w) == IF Len(Dec(n)) >= w THEN Dec(n)
             ELSE <<"0">> \o Pad(n, w - 1)

\* the items of "%Y-%m-%d %H:%M:%S" for a broken-down time
TimeItems(tm) ==
  << Pad(tm.year, 4), <<"-">>, Pad(tm.mon, 2), <<"-">>, Pad(tm.mday, 2),
     <<" ">>, Pad(tm.hour, 2), <<":">>, Pad(tm.min, 2), <<":">>,
     Pad(tm.sec, 2) >>

RECURSIVE Concat(_)
Concat(items) == IF items = <<>> THEN <<>>
                 ELSE Head(items) \o Concat(Tail(items))

RECURSIVE FitItems(_, _, _)
\* glibc's add(): an item is stored only if it leaves room for the NUL
FitItems(items, i, max) ==
  IF items = <<>> THEN <<>>
  ELSE IF Len(Head(items)) >= max - i THEN <<>>
       ELSE Head(items) \o FitItems(Tail(items), i + Len(Head(items)), max)

\* buf with chars stored from its first byte on
Overlay(buf, chars) ==
  [i \in 1..Len(buf) |-> IF i <= Len(chars) THEN chars[i] ELSE buf[i]]

\* strftime(s, max, "%Y-%m-%d %H:%M:%S", tm): the buffer it leaves. When the
\* text and its NUL do not fit in max bytes it returns 0 and the contents are
\* unspecified: each library leaves what its implementation had stored.
strftime(s, max, tm, lib) ==
  LET full == Concat(TimeItems(tm))
  IN  IF Len(full) + 1 <= max THEN Overlay(s, full \o <<NUL>>)
      ELSE IF lib = "glibc" THEN Overlay(s, FitItems(TimeItems(tm), 0, max))
      ELSE IF lib = "musl" THEN Overlay(s, SubSeq(full, 1, max - 1) \o <<NUL>>)
      ELSE Overlay(s, SubSeq(full, 1, max))

RECURSIVE CStr(_)
\* the C string a buffer holds: its bytes before the first NUL
CStr(buf) == IF buf = <<>> \/ Head(buf) = NUL THEN <<>>
             ELSE <<Head(buf)>> \o CStr(Tail(buf))

\* the buffer get_time_str leaves in time_str (it returns CStr of it)
get_time_str(buf, tm, lib) == strftime(buf, TIME_STR_SIZE - 1, tm, lib)

\* ------------------------------------------------------------ environment
\* the paths the host passes to log_set_file
Paths == {"a.log", "b.log"}

\* the files that exist when the process starts, and what they hold: a.log
\* was written by an earlier run, b.log does not exist yet
OldContent == ("a.log" :> <<"o","l","d","\n">>)

\* the values errno takes: 0, and the code a failed fopen stores (ENOENT)
ErrnoValues == {0, 2}

\* __FILE__ and __LINE__ at the host's call sites
SiteLog == [file |-> <<"x",".","c">>, line |-> 10]
SiteCheck == [file |-> <<"m","a","i","n",".","c">>, line |-> 42]
SiteCheckMem == [file |-> <<"m","a","i","n",".","c">>, line |-> 43]
SiteCheckDebug == [file |-> <<"m","a","i","n",".","c">>, line |-> 157]

\* the host's messages: log_xxx("hello %s", "world"), check(A, "reason")
MsgHello == [fmt |-> <<"h","e","l","l","o"," ","%","s">>,
             args |-> << [s |-> <<"w","o","r","l","d">>] >>]
MsgReason == [fmt |-> <<"r","e","a","s","o","n">>, args |-> <<>>]
MsgOutOfMemory == [fmt |-> OutOfMemory, args |-> <<>>]

\* ------------------------------------------------------------------ state
VARIABLES
  log_level,   \* static LogLevel log_level
  log_file,    \* static FILE *log_file: NULL or an open stream [path, buf]
  time_str,    \* get_time_str's static char time_str[20]
  errno,       \* the C library's errno
  files,       \* the content of each file that exists on disk
  stderr,      \* what has been written to the default error stream
  leaked,      \* abandoned streams that still hold unflushed data
  pc,          \* the host: "main", or in a guarded function "next", "ret", "error"
  done,        \* the guarded function's local, set between the guard and error:
  nullw,       \* a write was issued through a null FILE* (undefined behaviour)
  crashed,     \* the process died of it
  calls,       \* the stdio output calls the most recent operation made
  emitted,     \* how many records have been written so far
  tick,        \* flips at every operation of the host
  libc,        \* the C library of this build
  now,         \* the local time
  tpc,         \* threaded run: each thread's position in log_log and its level
  tdest,       \* threaded run: the sinks the pieces of each thread's record went to
  started      \* threaded run: how many log_log calls have begun

vars == <<log_level, log_file, time_str, errno, files, stderr, leaked, pc,
          done, nullw, crashed, calls, emitted, tick, libc, now, tpc, tdest, started>>

\* the mutable program state as one value, so that the macros are operators
World ==
  [log_level |-> log_level, log_file |-> log_file, time_str |-> time_str,
   errno |-> errno, files |-> files, stderr |-> stderr, leaked |-> leaked,
   pc |-> pc, done |-> done, nullw |-> FALSE, calls |-> <<>>,
   emitted |-> emitted]

Commit(w) ==
  /\ log_level' = w.log_level
  /\ log_file' = w.log_file
  /\ time_str' = w.time_str
  /\ errno' = w.errno
  /\ files' = w.files
  /\ stderr' = w.stderr
  /\ leaked' = w.leaked
  /\ pc' = w.pc
  /\ done' = w.done
  /\ nullw' = (nullw \/ w.nullw)
  /\ emitted' = w.emitted

\* ------------------------------------------------------------ C library
\* a mutant: the file is opened in mode "w"
\* a mutant: the file is opened in mode "w", which empties it
fopen_trunc(w, path, ok, e) ==
  IF ok THEN [fp |-> [path |-> path, buf |-> <<>>],
              w |-> [w EXCEPT !.files = (path :> <<>>) @@ w.files]]
  ELSE [fp |-> NULL, w |-> [w EXCEPT !.errno = e]]

\* fopen(path, "a"): a new stream positioned for appending; the file is
\* created if it does not exist and its content is left as it is. On
\* failure NULL, with errno set.
fopen(w, path, ok, e) ==
  IF ok THEN [fp |-> [path |-> path, buf |-> <<>>],
              w |-> [w EXCEPT !.files = w.files @@ (path :> <<>>)]]
  ELSE [fp |-> NULL, w |-> [w EXCEPT !.errno = e]]

\* fprintf(stream, ...) of an already formatted text; stream is "stderr" or
\* "log_file", the expression the macro passes, evaluated at the call.
\* stderr is unbuffered; a file stream collects the text in its buffer.
fprintf(w, stream, text) ==
  LET c == [w EXCEPT !.calls = Append(@, <<"fprintf", stream>>)]
  IN  IF stream = "stderr" THEN [c EXCEPT !.stderr = @ \o text]
      ELSE IF c.log_file = NULL THEN [c EXCEPT !.nullw = TRUE]
      ELSE [c EXCEPT !.log_file.buf = @ \o text]

RECURSIVE FlushAll(_, _)
FlushAll(fs, streams) ==
  IF streams = <<>> THEN fs
  ELSE FlushAll([fs EXCEPT ![Head(streams).path] = @ \o Head(streams).buf],
                Tail(streams))

\* a mutant: the call leaves the buffer as it is
fflush_skipped(w) == [w EXCEPT !.calls = Append(@, <<"fflush", "log_file">>)]

\* fflush(log_file): the buffer goes to the end of the file (append mode);
\* fflush(NULL) flushes every open output stream
fflush(w) ==
  LET c == [w EXCEPT !.calls = Append(@, <<"fflush", "log_file">>)]
  IN  IF c.log_file = NULL
      THEN [c EXCEPT !.files = FlushAll(@, c.leaked), !.leaked = <<>>]
      ELSE [c EXCEPT !.files[c.log_file.path] = @ \o c.log_file.buf,
                     !.log_file.buf = <<>>]

\* ----------------------------------------------------------------- macros
\* log_set_level(level): (log_level = (level))
log_set_level(w, level) == [w EXCEPT !.log_level = level]

\* a mutant: a failed fopen leaves the previous stream in place
log_set_file_keep(w, path, ok, e) ==
  LET r == fopen(w, path, ok, e)
  IN  IF r.fp = NULL THEN r.w
      ELSE [r.w EXCEPT
              !.log_file = r.fp,
              !.leaked = IF w.log_file # NULL /\ w.log_file.buf # <<>>
                         THEN Append(@, w.log_file) ELSE @]

\* log_set_file(file): (log_file = fopen((file), "a")); the stream log_file
\* pointed to is not closed
log_set_file(w, path, ok, e) ==
  LET r == fopen(w, path, ok, e)
  IN  [r.w EXCEPT
         !.log_file = r.fp,
         !.leaked = IF w.log_file # NULL /\ w.log_file.buf # <<>>
                    THEN Append(@, w.log_file) ELSE @]

\* a mutant: the comparison is strict
LevelPasses_strict(level, min) == level > min

\* if (level >= log_level)
LevelPasses(level, min) == level >= min

\* a mutant: the stream is used without the test
SinkSet_always(fp) == TRUE

\* if (log_file)
SinkSet(fp) == fp # NULL

\* fprintf(stream, LOG_FMT, LOG_ARGS(level)); the arguments are evaluated
\* first, get_time_str() among them
log_prefix(w, stream, level, site, tm, lib) ==
  LET t == [w EXCEPT !.time_str = get_time_str(@, tm, lib)]
  IN  fprintf(t, stream,
              Format(LOG_FMT, << [s |-> get_log_level_str(level)],
                                 [s |-> CStr(t.time_str)],
                                 [s |-> site.file],
                                 [d |-> site.line] >>))

\* fprintf(stream, __VA_ARGS__)
log_body(w, stream, msg) == fprintf(w, stream, Format(msg.fmt, msg.args))

\* fprintf(stream, "\n"), which ends the record
log_newline(w, stream) ==
  [fprintf(w, stream, NEWLINE) EXCEPT !.emitted = @ + 1]

\* log_log(level, ...)
log_log(w, level, site, msg, tm, lib) ==
  IF LevelPasses(level, w.log_level)
  THEN IF SinkSet(w.log_file)
       THEN fflush(log_newline(log_body(
                log_prefix(w, "log_file", level, site, tm, lib),
                "log_file", msg), "log_file"))
       ELSE log_newline(log_body(
                log_prefix(w, "stderr", level, site, tm, lib),
                "stderr", msg), "stderr")
  ELSE w

\* log_debug(...), log_error(...)
log_debug(w, site, msg, tm, lib) == log_log(w, LOG_DEBUG, site, msg, tm, lib)
log_error(w, site, msg, tm, lib) == log_log(w, LOG_ERROR, site, msg, tm, lib)

\* a mutant: errno is left as it was
check_keeps_errno(w, A, site, msg, tm, lib) ==
  IF ~A THEN [log_error(w, site, msg, tm, lib) EXCEPT !.pc = "error"]
  ELSE [w EXCEPT !.pc = "next"]

\* check(A, M, ...): if (!(A)) { log_error(M, ...); errno = 0; goto error; }
check(w, A, site, msg, tm, lib) ==
  IF ~A THEN [log_error(w, site, msg, tm, lib) EXCEPT
                !.errno = 0, !.pc = "error"]
  ELSE [w EXCEPT !.pc = "next"]

\* check_mem(A): check((A), "Out of memory.")
check_mem(w, A, site, tm, lib) == check(w, A, site, MsgOutOfMemory, tm, lib)

\* a mutant: the debug guard logs like check
check_debug_as_error(w, A, site, msg, tm, lib) ==
  IF ~A THEN [log_error(w, site, msg, tm, lib) EXCEPT
                !.errno = 0, !.pc = "error"]
  ELSE [w EXCEPT !.pc = "next"]

\* a mutant: the debug guard jumps only when its record was emitted
check_debug_gated(w, A, site, msg, tm, lib) ==
  IF ~A /\ LOG_DEBUG >= w.log_level
  THEN [log_debug(w, site, msg, tm, lib) EXCEPT !.errno = 0, !.pc = "error"]
  ELSE [w EXCEPT !.pc = "next"]

\* check_debug(A, M, ...):
\*   if (!(A)) { log_debug(M, ...); errno = 0; goto error; }
check_debug(w, A, site, msg, tm, lib) ==
  IF ~A THEN [log_debug(w, site, msg, tm, lib) EXCEPT
                !.errno = 0, !.pc = "error"]
  ELSE [w EXCEPT !.pc = "next"]

\* ---------------------------------------------------------------- actions
Init ==
  /\ log_level = LOG_TRACE
  /\ log_file = NULL
  /\ time_str = [i \in 1..TIME_STR_SIZE |-> NUL]
  /\ errno = 0
  /\ files = OldContent
  /\ stderr = <<>>
  /\ leaked = <<>>
  /\ pc = "main"
  /\ done = FALSE
  /\ nullw = FALSE
  /\ crashed = FALSE
  /\ calls = <<>>
  /\ emitted = 0
  /\ tick = FALSE
  /\ libc \in Libcs
  /\ now \in Instants
  /\ tpc = <<>>
  /\ tdest = <<>>
  /\ started = 0

\* the effect of one whole single-threaded operation; a write through a null
\* pointer may end the process
Run(w) ==
  /\ Commit(w)
  /\ calls' = w.calls
  /\ tick' = ~tick
  /\ crashed' \in (IF w.nullw THEN BOOLEAN ELSE {FALSE})
  /\ UNCHANGED <<libc, now, tpc, tdest, started>>

Ready == ~crashed /\ pc = "main"

LogSetLevel(level) ==
  /\ Ready
  /\ Run(log_set_level(World, level))

LogSetFile(path, ok, e) ==
  /\ Ready
  /\ Run(log_set_file(World, path, ok, e))

\* log_trace, log_debug, log_info, log_warn, log_error: log_log at one level
LogLog(level) ==
  /\ Ready
  /\ emitted < MaxRecords
  /\ Run(log_log(World, level, SiteLog, MsgHello, now, libc))

\* the host enters a function whose first statement is check(A, "reason")
Check(A) ==
  /\ Ready
  /\ emitted < MaxRecords
  /\ Run(check(World, A, SiteCheck, MsgReason, now, libc))

CheckMem(A) ==
  /\ Ready
  /\ emitted < MaxRecords
  /\ Run(check_mem(World, A, SiteCheckMem, now, libc))

CheckDebug(A) ==
  /\ Ready
  /\ emitted < MaxRecords
  /\ Run(check_debug(World, A, SiteCheckDebug, MsgReason, now, libc))

\* the statement between the guard and the error: label
Between ==
  /\ ~crashed
  /\ pc = "next"
  /\ Run([World EXCEPT !.done = TRUE, !.pc = "ret"])

\* the guarded function returns, from its body or from its error: label
Return ==
  /\ ~crashed
  /\ pc \in {"ret", "error"}
  /\ Run([World EXCEPT !.done = FALSE, !.pc = "main"])

Next ==
  \/ \E level \in LogLevel : LogSetLevel(level)
  \/ \E path \in Paths, ok \in BOOLEAN, e \in ErrnoValues \ {0} :
       LogSetFile(path, ok, e)
  \/ \E level \in LogLevel : LogLog(level)
  \/ \E A \in BOOLEAN : Check(A)
  \/ \E A \in BOOLEAN : CheckMem(A)
  \/ \E A \in BOOLEAN : CheckDebug(A)
  \/ Between
  \/ Return

Spec == Init /\ [][Next]_vars

\* ------------------------------------------------------- threaded host
\* The same macros with no synchronisation: each evaluation of log_level or
\* log_file in log_log's expansion is a separate read of the shared variable,
\* so a thread's log_log is the sequence of steps
\*   begin (level >= log_level), test (if (log_file)),
\*   prefix, body, newline (the three fprintf) and flush (fflush),
\* and log_set_file is one store.
ThreadCounts == {1, 2}

\* the level the threads log at
RaceLevels == {LOG_WARN}

Idle == [at |-> "idle", level |-> LOG_TRACE]

InitRace ==
  /\ log_level = LOG_TRACE
  /\ log_file = NULL
  /\ time_str = [i \in 1..TIME_STR_SIZE |-> NUL]
  /\ errno = 0
  /\ files = OldContent
  /\ stderr = <<>>
  /\ leaked = <<>>
  /\ pc = "main"
  /\ done = FALSE
  /\ nullw = FALSE
  /\ crashed = FALSE
  /\ calls = <<>>
  /\ emitted = 0
  /\ tick = FALSE
  /\ libc \in Libcs
  /\ now \in Instants
  /\ \E n \in ThreadCounts :
       /\ tpc = [t \in 1..n |-> Idle]
       /\ tdest = [t \in 1..n |-> <<>>]
  /\ started = 0

Threads == DOMAIN tpc

\* one step of thread t: the shared state becomes w, the thread moves to at
Step(t, w, at) ==
  /\ Commit(w)
  /\ crashed' \in (IF w.nullw THEN BOOLEAN ELSE {FALSE})
  /\ tpc' = [tpc EXCEPT ![t].at = at]
  /\ UNCHANGED <<libc, now, calls, tick>>

\* the sink a write to the stream goes to, as the thread finds it at the call
SinkOf(stream) == IF stream = "stderr" THEN "stderr" ELSE log_file.path

\* the stream expression of the branch the thread is in
StreamAt(at) == IF at \in {"F1", "F2", "F3", "F4"} THEN "log_file" ELSE "stderr"

RSetFile(t, path, ok, e) ==
  /\ ~crashed
  /\ tpc[t].at = "idle"
  /\ Step(t, log_set_file(World, path, ok, e), "idle")
  /\ UNCHANGED <<tdest, started>>

\* if (level >= log_level)
RBegin(t, level) ==
  /\ ~crashed
  /\ tpc[t].at = "idle"
  /\ started < MaxRaceLogs
  /\ started' = started + 1
  /\ Commit(World)
  /\ crashed' = FALSE
  /\ tpc' = [tpc EXCEPT ![t] =
               [at |-> IF LevelPasses(level, log_level) THEN "test" ELSE "idle",
                level |-> level]]
  /\ tdest' = [tdest EXCEPT ![t] = <<>>]
  /\ UNCHANGED <<libc, now, calls, tick>>

\* if (log_file)
RTest(t) ==
  /\ ~crashed
  /\ tpc[t].at = "test"
  /\ Step(t, World, IF SinkSet(log_file) THEN "F1" ELSE "E1")
  /\ UNCHANGED <<tdest, started>>

\* fprintf(stream, LOG_FMT, LOG_ARGS(level))
RPrefix(t) ==
  /\ ~crashed
  /\ tpc[t].at \in {"F1", "E1"}
  /\ LET stream == StreamAt(tpc[t].at)
     IN  /\ Step(t, log_prefix(World, stream, tpc[t].level, SiteLog, now, libc),
                 IF stream = "stderr" THEN "E2" ELSE "F2")
         /\ tdest' = [tdest EXCEPT ![t] = Append(@, SinkOf(stream))]
  /\ UNCHANGED started

\* fprintf(stream, __VA_ARGS__)
RBody(t) ==
  /\ ~crashed
  /\ tpc[t].at \in {"F2", "E2"}
  /\ LET stream == StreamAt(tpc[t].at)
     IN  /\ Step(t, log_body(World, stream, MsgHello),
                 IF stream = "stderr" THEN "E3" ELSE "F3")
         /\ tdest' = [tdest EXCEPT ![t] = Append(@, SinkOf(stream))]
  /\ UNCHANGED started

\* fprintf(stream, "\n"); the stderr branch ends here
RNewline(t) ==
  /\ ~crashed
  /\ tpc[t].at \in {"F3", "E3"}
  /\ LET stream == StreamAt(tpc[t].at)
     IN  /\ Step(t, log_newline(World, stream),
                 IF stream = "stderr" THEN "idle" ELSE "F4")
         /\ tdest' = [tdest EXCEPT ![t] = Append(@, SinkOf(stream))]
  /\ UNCHANGED started

\* fflush(log_file)
RFlush(t) ==
  /\ ~crashed
  /\ tpc[t].at = "F4"
  /\ Step(t, fflush(World), "idle")
  /\ UNCHANGED <<tdest, started>>

NextRace ==
  \/ \E t \in Threads, path \in Paths, ok \in BOOLEAN, e \in ErrnoValues \ {0} :
       RSetFile(t, path, ok, e)
  \/ \E t \in Threads, level \in RaceLevels : RBegin(t, level)
  \/ \E t \in Threads : RTest(t)
  \/ \E t \in Threads : RPrefix(t)
  \/ \E t \in Threads : RBody(t)
  \/ \E t \in Threads : RNewline(t)
  \/ \E t \in Threads : RFlush(t)

SpecRace == InitRace /\ [][NextRace]_vars

\* =================================================================
\* Properties
\* =================================================================
\* the texts the properties expect, written out independently of the model
NameOf(level) ==
  CASE level = LOG_TRACE -> <<"T","R","A","C","E">>
    [] level = LOG_DEBUG -> <<"D","E","B","U","G">>
    [] level = LOG_INFO -> <<"I","N","F","O">>
    [] level = LOG_WARN -> <<"W","A","R","N">>
    [] level = LOG_ERROR -> <<"E","R","R","O","R">>

XC == <<"x",".","c">>
MainC == <<"m","a","i","n",".","c">>
HelloWorld == <<"h","e","l","l","o"," ","w","o","r","l","d">>
Reason == <<"r","e","a","s","o","n">>

\* <LEVEL> [<timestamp>] (<file>:<line>) <message>\n
RecordLine(name, ts, file, line, text) ==
  name \o <<" ", "[">> \o ts \o <<"]", " ", "(">> \o file \o <<":">> \o line
       \o <<")", " ">> \o text \o <<"\n">>

\* the record each call site of the host writes, with timestamp ts
LogLine(level, ts) == RecordLine(NameOf(level), ts, XC, <<"1","0">>, HelloWorld)
CheckLine(ts) == RecordLine(NameOf(LOG_ERROR), ts, MainC, <<"4","2">>, Reason)
CheckMemLine(ts) ==
  RecordLine(NameOf(LOG_ERROR), ts, MainC, <<"4","3">>, OutOfMemory)
CheckDebugLine(ts) ==
  RecordLine(NameOf(LOG_DEBUG), ts, MainC, <<"1","5","7">>, Reason)

\* a step wrote exactly this text, to one sink, and nothing else
WroteToStderr(text) == stderr' = stderr \o text /\ files' = files
WroteToFile(p, text) ==
  /\ p \in DOMAIN files
  /\ files' = [files EXCEPT ![p] = @ \o text]
  /\ stderr' = stderr
Wrote(text) ==
  WroteToStderr(text) \/ \E p \in DOMAIN files : WroteToFile(p, text)
\* a step wrote the text to the sink that was active when it began
WroteToSink(text) ==
  IF log_file = NULL THEN WroteToStderr(text)
  ELSE WroteToFile(log_file.path, text)
WroteNothing == stderr' = stderr /\ files' = files

\* the timestamp a step's record carries: what get_time_str returned
Stamp == CStr(time_str')

IsPrefix(a, b) == Len(a) <= Len(b) /\ SubSeq(b, 1, Len(a)) = a

IsSetLevel == \E level \in LogLevel : LogSetLevel(level)
IsSetFile ==
  \E path \in Paths, ok \in BOOLEAN, e \in ErrnoValues \ {0} :
    LogSetFile(path, ok, e)

\* C1: level filtering. log_level is TRACE at the start and is changed by
\* log_set_level alone, which stores its argument; a log call at level L
\* writes exactly one record (its own line, to one sink) if L >= log_level,
\* and writes nothing, to a file or to stderr, otherwise.
C1_LevelFiltering ==
  /\ log_level = LOG_TRACE
  /\ [][/\ \A level \in LogLevel : LogSetLevel(level) => log_level' = level
        /\ ~IsSetLevel => log_level' = log_level
        /\ \A level \in LogLevel :
             LogLog(level) =>
               IF level >= log_level
               THEN Wrote(LogLine(level, Stamp)) /\ emitted' = emitted + 1
               ELSE WroteNothing /\ emitted' = emitted
                    /\ log_file' = log_file /\ leaked' = leaked]_vars

\* a log call at exactly the minimum level has written, after log_set_level
\* raised the minimum above TRACE
C1_Witness ==
  /\ log_level = LOG_WARN
  /\ pc = "main"
  /\ stderr = LogLine(LOG_WARN, CStr(time_str))

\* C2: sink redirection. A successful log_set_file(path) makes a fresh
\* stream on path the sink, and the sink changes by log_set_file alone;
\* while a file is the sink, every record a log call or a guard emits is
\* appended to that file and nothing is written to stderr; no step removes
\* a file or changes what it already holds (the old content stays a prefix).
C2_SinkRedirection ==
  [][/\ \A path \in Paths, e \in ErrnoValues \ {0} :
          LogSetFile(path, TRUE, e) =>
            log_file' = [path |-> path, buf |-> <<>>] /\ path \in DOMAIN files'
     /\ log_file' # log_file => IsSetFile
     /\ log_file # NULL =>
          /\ stderr' = stderr
          /\ \A level \in LogLevel :
               (LogLog(level) /\ level >= log_level) =>
                 WroteToFile(log_file.path, LogLine(level, Stamp))
          /\ Check(FALSE) => WroteToFile(log_file.path, CheckLine(Stamp))
          /\ CheckMem(FALSE) => WroteToFile(log_file.path, CheckMemLine(Stamp))
          /\ (CheckDebug(FALSE) /\ LOG_DEBUG >= log_level) =>
               WroteToFile(log_file.path, CheckDebugLine(Stamp))
     /\ \A p \in DOMAIN files :
          p \in DOMAIN files' /\ IsPrefix(files[p], files'[p])]_vars

\* with a.log as the sink, a record was appended after what the file held
C2_Witness ==
  /\ log_file # NULL
  /\ log_file.path = "a.log"
  /\ files["a.log"] = OldContent["a.log"] \o LogLine(LOG_INFO, CStr(time_str))
  /\ stderr = <<>>

\* C3 as the specification states it: a failed log_set_file leaves the sink
\* as it was.
C3_FailedOpenKeepsSink ==
  [][\A path \in Paths, e \in ErrnoValues \ {0} :
       LogSetFile(path, FALSE, e) => log_file' = log_file]_vars

\* C3 as amended: a failed log_set_file stores the null pointer, whatever the
\* sink was (an unset sink stays unset, an open file sink is abandoned), and
\* leaves every file as it is.
C3_FailedOpenUnsetsSink ==
  [][\A path \in Paths, e \in ErrnoValues \ {0} :
       LogSetFile(path, FALSE, e) =>
         log_file' = NULL /\ files' = files /\ errno' = e]_vars

\* b.log exists, so it was opened as the sink; the sink is unset again, which
\* only a failed log_set_file does, and errno still holds its error
C3_Witness ==
  /\ "b.log" \in DOMAIN files
  /\ log_file = NULL
  /\ errno # 0

\* C4: the guard check (and check_mem, which is check with a fixed message).
\* With a false condition it writes one ERROR record carrying the message to
\* the active sink, sets errno to 0 and goes to error: in that same step, so
\* the statement between the guard and the label has not run; the failure
\* point is left by returning, not by running the guard or the body again.
\* With a true condition it writes nothing, leaves errno and falls through.
C4_GuardTransfer ==
  [][/\ Check(FALSE) =>
          /\ WroteToSink(CheckLine(Stamp))
          /\ errno' = 0 /\ pc' = "error" /\ ~done'
     /\ CheckMem(FALSE) =>
          /\ WroteToSink(CheckMemLine(Stamp))
          /\ errno' = 0 /\ pc' = "error" /\ ~done'
     /\ (Check(TRUE) \/ CheckMem(TRUE)) =>
          WroteNothing /\ errno' = errno /\ pc' = "next" /\ emitted' = emitted
     /\ pc = "next" => pc' = "ret" /\ done'
     /\ pc = "error" => pc' = "main" /\ ~done /\ WroteNothing]_vars

\* a failed check has jumped: its record is on stderr, errno is clear
C4_Witness ==
  /\ pc = "error"
  /\ ~done
  /\ errno = 0
  /\ stderr = CheckLine(CStr(time_str))
  /\ "b.log" \in DOMAIN files

\* C5: the guard check_debug. With a false condition it logs at DEBUG: the
\* record it writes, when the minimum level lets DEBUG through, is its
\* message under the level token DEBUG (and none is written otherwise); like
\* check it sets errno to 0 and goes to error:.
C5_DebugGuardSeverity ==
  [][CheckDebug(FALSE) =>
       /\ IF LOG_DEBUG >= log_level
          THEN WroteToSink(CheckDebugLine(Stamp)) /\ emitted' = emitted + 1
          ELSE WroteNothing /\ emitted' = emitted
       /\ errno' = 0 /\ pc' = "error" /\ ~done']_vars

\* a failed check_debug has jumped and its DEBUG record is in the log file
C5_Witness ==
  /\ pc = "error"
  /\ errno = 0
  /\ log_file # NULL
  /\ log_file.path = "b.log"
  /\ files["b.log"] = CheckDebugLine(CStr(time_str))

\* the positions of the newlines of a text, and the line each one ends
Newlines(text) == {i \in 1..Len(text) : text[i] = "\n"}
LineEndingAt(text, i) ==
  LET before == {j \in Newlines(text) : j < i}
      start == IF before = {} THEN 1
               ELSE 1 + CHOOSE j \in before : \A k \in before : k <= j
  IN  SubSeq(text, start, i)

\* the records the host's call sites can write, with timestamp ts
Records(ts) ==
  {LogLine(level, ts) : level \in LogLevel}
    \cup {CheckLine(ts), CheckMemLine(ts), CheckDebugLine(ts)}

\* text is old followed by whole records only
OnlyRecordsAfter(old, text, ts) ==
  /\ IsPrefix(old, text)
  /\ LET new == SubSeq(text, Len(old) + 1, Len(text))
     IN  /\ new # <<>> => new[Len(new)] = "\n"
         /\ \A i \in Newlines(new) : LineEndingAt(new, i) \in Records(ts)

C7_SilentDegradation ==
  [][/\ \A path \in Paths, e \in ErrnoValues \ {0} :
          LogSetFile(path, FALSE, e) =>
            /\ log_file' = NULL
            /\ WroteNothing /\ emitted' = emitted /\ pc' = pc /\ ~crashed'
     /\ log_file = NULL =>
          /\ (IsSetFile \/ files' = files)
          /\ \A level \in LogLevel :
               (LogLog(level) /\ level >= log_level) =>
                 WroteToStderr(LogLine(level, Stamp))
          /\ Check(FALSE) => WroteToStderr(CheckLine(Stamp))
          /\ CheckMem(FALSE) => WroteToStderr(CheckMemLine(Stamp))
          /\ (CheckDebug(FALSE) /\ LOG_DEBUG >= log_level) =>
               WroteToStderr(CheckDebugLine(Stamp))
     /\ ~nullw' /\ ~crashed']_vars

\* b.log had been opened as the sink, a later log_set_file failed, and the
\* record logged after that is on stderr, not in a file
C7_Witness ==
  /\ "b.log" \in DOMAIN files
  /\ files["b.log"] = <<>>
  /\ log_file = NULL
  /\ calls = <<<<"fprintf", "stderr">>, <<"fprintf", "stderr">>,
               <<"fprintf", "stderr">>>>
  /\ stderr = LogLine(LOG_ERROR, CStr(time_str))

\* C9: flush after each record. Between operations no stream holds unflushed
\* data; an operation that wrote to the file sink made its three fprintf
\* calls and then fflush, as its last call; an operation that wrote to stderr
\* called no fflush.
C9_FlushAfterRecord ==
  /\ log_file.buf = <<>>
  /\ leaked = <<>>
  /\ (\E i \in DOMAIN calls : calls[i] = <<"fprintf", "log_file">>) =>
       calls = <<<<"fprintf", "log_file">>, <<"fprintf", "log_file">>,
                 <<"fprintf", "log_file">>, <<"fflush", "log_file">>>>
  /\ (\E i \in DOMAIN calls : calls[i] = <<"fprintf", "stderr">>) =>
       \A i \in DOMAIN calls : calls[i][1] # "fflush"

\* a log call that wrote to the file sink has returned: the record is in the
\* file, newline included
C9_Witness ==
  /\ log_file # NULL
  /\ log_file.path = "a.log"
  /\ calls # <<>>
  /\ calls[Len(calls)] = <<"fflush", "log_file">>
  /\ files["a.log"] = OldContent["a.log"] \o LogLine(LOG_TRACE, CStr(time_str))

\* C10: the guards' jump does not depend on the level filter. Whatever the
\* minimum level, a failed check or check_mem emits exactly one record; a
\* failed check_debug under a minimum above DEBUG emits none and still sets
\* errno to 0 and goes to error:; no guard changes log_level or the sink.
C10_GuardsIgnoreFilter ==
  [][/\ (Check(FALSE) \/ CheckMem(FALSE)) =>
          /\ emitted' = emitted + 1 /\ ~WroteNothing
          /\ pc' = "error" /\ errno' = 0
     /\ (CheckDebug(FALSE) /\ log_level > LOG_DEBUG) =>
          /\ emitted' = emitted /\ WroteNothing
          /\ pc' = "error" /\ errno' = 0
     /\ (\E A \in BOOLEAN : Check(A) \/ CheckMem(A) \/ CheckDebug(A)) =>
          log_level' = log_level /\ log_file' = log_file]_vars

\* a failed check_debug has jumped without a record: a failed open had set
\* errno, the minimum level is WARN, nothing was written
C10_Witness ==
  /\ pc = "error"
  /\ log_level = LOG_WARN
  /\ emitted = 0
  /\ errno = 0
  /\ log_file = NULL
  /\ DOMAIN files = {"a.log", "b.log"}

\* the pieces of one record went to two different files
Torn ==
  \E t \in Threads :
    {"a.log", "b.log"} \subseteq {tdest[t][i] : i \in DOMAIN tdest[t]}

\* C8: the race between log_set_file and log_log. A record torn between
\* sinks, or a write through a null FILE* after the test of log_file passed,
\* happens only in a run with two threads: with one thread neither state is
\* reachable. (That both are reachable with two threads is C8_Witness.)
C8_RaceNeedsTwoThreads ==
  (nullw \/ crashed \/ \E t \in Threads :
                          Cardinality({tdest[t][i] : i \in DOMAIN tdest[t]}) > 1)
    => Cardinality(Threads) > 1

\* one log_log call, two log_set_file calls by the other thread: the prefix
\* went to a.log, the body to b.log, the newline through the null pointer
C8_Witness ==
  /\ Torn
  /\ nullw
  /\ \E t \in Threads : tdest[t] = <<"a.log", "b.log", "(null)">>

====
